---- MODULE Spec2Model ----
(***************************************************************************)
(* Model of the music bot of src/main.py: the handlers play,               *)
(* handle_message and button_callback, the helpers search_youtube and      *)
(* download_audio, the chat messages they reply with and edit, and the     *)
(* downloads/ directory.  Strings are sequences of one-character strings.  *)
(***************************************************************************)
EXTENDS Integers, Sequences, FiniteSets, TLC

VARIABLES queue, plays, presses, hd, interactions, files

vars == <<queue, plays, presses, hd, interactions, files>>

(* ------------------------------ bounds -------------------------------- *)

\* Commands and plain messages the user sends in one behaviour.
MaxPlays == 1
\* Button presses the user makes in one behaviour.
MaxPresses == 2
\* Updates waiting in the dispatcher's update queue.
MaxQueue == 1
\* Length of a message text (the text after "/play " for the command).
MaxTextLen == 2
\* Number of pieces a canonical URL is made of.
MaxUrlParts == 1
\* Largest duration (seconds) a search reports.
MaxDuration == 0
\* Distinct media titles, hence distinct file names under downloads/.
MaxTitles == 1

(* --------------------------- string helpers --------------------------- *)

DownloadPrefix == <<"d", "o", "w", "n", "l", "o", "a", "d", "_">>
CancelData == <<"c", "a", "n", "c", "e", "l">>
PlayCmd == <<"/", "p", "l", "a", "y">>

\* str.startswith
StartsWith(s, p) ==
    /\ Len(s) >= Len(p)
    /\ SubSeq(s, 1, Len(p)) = p

\* str.replace(old, ""): every non-overlapping occurrence, left to right.
RECURSIVE Replace(_, _)
Replace(s, old) ==
    IF Len(s) < Len(old) THEN s
    ELSE IF StartsWith(s, old)
         THEN Replace(SubSeq(s, Len(old) + 1, Len(s)), old)
         ELSE <<s[1]>> \o Replace(Tail(s), old)

\* str.split(): the maximal runs of non-whitespace characters.
RECURSIVE SplitFrom(_, _)
SplitFrom(s, word) ==
    IF s = <<>>
    THEN IF word = <<>> THEN <<>> ELSE <<word>>
    ELSE IF s[1] = " "
         THEN (IF word = <<>> THEN <<>> ELSE <<word>>) \o SplitFrom(Tail(s), <<>>)
         ELSE SplitFrom(Tail(s), Append(word, s[1]))

Split(s) == SplitFrom(s, <<>>)

\* ' '.join(words)
RECURSIVE Join(_)
Join(words) ==
    IF words = <<>> THEN <<>>
    ELSE IF Len(words) = 1 THEN words[1]
    ELSE words[1] \o <<" ">> \o Join(Tail(words))

(* ------------------------------ inputs -------------------------------- *)

TextChars == {"a", " ", "/"}
Texts == UNION {[1..n -> TextChars] : n \in 0..MaxTextLen}

UrlChunks == {DownloadPrefix, <<"d">>}
RECURSIVE Flatten(_)
Flatten(parts) ==
    IF parts = <<>> THEN <<>> ELSE parts[1] \o Flatten(Tail(parts))
Urls == {Flatten(p) : p \in UNION {[1..n -> UrlChunks] : n \in 1..MaxUrlParts}}

Titles == 1..MaxTitles
NoFile == 0

\* What extract_info's first entry holds under 'duration': the key may be
\* missing, may hold None, or may hold a number of seconds.
DurationFields(maxd) ==
    {[tag |-> "missing", val |-> 0], [tag |-> "none", val |-> 0]}
        \cup {[tag |-> "int", val |-> d] : d \in 0..maxd}

\* The outcomes of ydl.extract_info(...)['entries'][0]: an info dict, or an
\* exception (network error, no entry, a missing key).
Infos(maxd) ==
    {[raised |-> TRUE, duration |-> [tag |-> "missing", val |-> 0], url |-> <<>>]}
        \cup {[raised |-> FALSE, duration |-> d, url |-> u] :
                 d \in DurationFields(maxd), u \in Urls}

\* A payload that is neither "cancel" nor prefixed with "download_".
OtherData == <<"x">>

(* -------------------- search result and its display ------------------- *)

NoneResult == [ok |-> FALSE, duration |-> [tag |-> "int", val |-> 0], url |-> <<>>]

\* search_youtube: the dict built from the first entry, None on any exception.
\* info.get('duration', 0) gives 0 for a missing key and keeps a stored None.
SearchResult(info) ==
    IF info.raised THEN NoneResult
    ELSE [ok |-> TRUE,
          duration |-> IF info.duration.tag = "missing"
                       THEN [tag |-> "int", val |-> 0]
                       ELSE info.duration,
          url |-> info.url]

DigitChar(d) == <<"0", "1", "2", "3", "4", "5", "6", "7", "8", "9">>[d + 1]

\* str(n) of a natural number
RECURSIVE Decimal(_)
Decimal(n) ==
    IF n < 10 THEN <<DigitChar(n)>>
    ELSE Append(Decimal(n \div 10), DigitChar(n % 10))

\* format(n, "02d"): at least two digits, padded with zeros on the left
Pad02d(n) ==
    IF Len(Decimal(n)) < 2 THEN <<"0">> \o Decimal(n) ELSE Decimal(n)

\* minutes = d // 60; seconds = d % 60; f"{minutes}:{seconds:02d}"
FormatDuration(d) ==
    LET minutes == d \div 60
        seconds == d % 60
    IN  Decimal(minutes) \o <<":">> \o Pad02d(seconds)

\* callback_data of the "Download & Send" button
DownloadPayload(url) == DownloadPrefix \o url

(* ------------------------------- state -------------------------------- *)

\* Application.builder().token(BOT_TOKEN).build() does not ask for concurrent
\* updates: the dispatcher awaits one update's handler before the next.
ConcurrentUpdates == FALSE

\* Handler invocations that can be in flight.
Slots == 1..2

\* A handler invocation: its position and its locals.  query None is <<>>
\* (the code only tests "not query"); audio_file None is NoFile; wrote tells
\* whether the handling's own download wrote the file at audio_file.  log is the
\* sequence of outbound and collaborator calls made so far, with outcomes.
IdleHandler ==
    [kind |-> "none", pc |-> "idle", text |-> <<>>, query |-> <<>>,
     result |-> NoneResult, duration_str |-> <<>>, callback_data |-> <<>>,
     ix |-> 0, data |-> <<>>, url |-> <<>>, audio_file |-> NoFile,
     wrote |-> FALSE, log |-> <<>>]

\* One search and the messages it produced: the interim notice
\* (searching_msg), the result message with its keyboard (result_msg), the
\* payload of its download button, and how many Download Collaborator calls
\* and audio attachments came of it.
NewInteraction ==
    [searching_msg |-> "shown", result_msg |-> "none", keyboard |-> FALSE,
     payload |-> <<>>, downloads |-> 0, sends |-> 0]

Call(name, arg, ok) == [call |-> name, arg |-> arg, ok |-> ok]

Init ==
    /\ queue = <<>>
    /\ plays = 0
    /\ presses = 0
    /\ hd = [h \in Slots |-> IdleHandler]
    /\ interactions = <<>>
    /\ files = {}

Logged(h, name, arg, ok) == Append(hd[h].log, Call(name, arg, ok))

(* ----------------------------- the user ------------------------------- *)

\* The user sends "/play <text>".
UserPlay ==
    /\ plays < MaxPlays
    /\ Len(queue) < MaxQueue
    /\ queue' = Append(queue, [kind |-> "play", ix |-> 0, button |-> "none"])
    /\ plays' = plays + 1
    /\ UNCHANGED <<presses, hd, interactions, files>>

\* The user sends a text that is no command.
UserMessage ==
    /\ plays < MaxPlays
    /\ Len(queue) < MaxQueue
    /\ queue' = Append(queue, [kind |-> "msg", ix |-> 0, button |-> "none"])
    /\ plays' = plays + 1
    /\ UNCHANGED <<presses, hd, interactions, files>>

\* The user presses a button of a result message whose keyboard is shown, or
\* a button with a payload this program never made ("other").
UserPress ==
    /\ presses < MaxPresses
    /\ Len(queue) < MaxQueue
    /\ \E i \in 1..Len(interactions), b \in {"download", "cancel", "other"} :
        /\ interactions[i].keyboard
        /\ queue' = Append(queue, [kind |-> "press", ix |-> i, button |-> b])
    /\ presses' = presses + 1
    /\ UNCHANGED <<plays, hd, interactions, files>>

(* --------------------------- the dispatcher --------------------------- *)

\* The dispatcher takes the next update and starts its handler.  The text
\* of a message is drawn here: nothing reads it before its handler runs.
\* filters.TEXT lets no empty text through to handle_message.
Dispatch ==
    /\ queue # <<>>
    /\ ConcurrentUpdates \/ \A s \in Slots : hd[s].pc = "idle"
    /\ \E h \in Slots :
        /\ hd[h].pc = "idle"
        /\ \A g \in Slots : g < h => hd[g].pc # "idle"
        /\ LET u == Head(queue) IN
           IF u.kind = "press"
           THEN hd' = [hd EXCEPT ![h] =
                    [IdleHandler EXCEPT
                        !.kind = "press", !.pc = "start", !.ix = u.ix,
                        !.data = CASE u.button = "download" -> interactions[u.ix].payload
                                   [] u.button = "cancel" -> CancelData
                                   [] OTHER -> OtherData]]
           ELSE \E t \in Texts :
                /\ u.kind = "msg" => t # <<>>
                /\ hd' = [hd EXCEPT ![h] =
                       [IdleHandler EXCEPT !.kind = u.kind, !.pc = "start", !.text = t]]
    /\ queue' = Tail(queue)
    /\ UNCHANGED <<plays, presses, interactions, files>>

\* The handler returned: the dispatcher is done with the update.
Return(h) ==
    /\ hd[h].pc = "done"
    /\ hd' = [hd EXCEPT ![h] = IdleHandler]
    /\ UNCHANGED <<queue, plays, presses, interactions, files>>

\* An exception escaped the handler: error_handler logs it.
error_handler(h) ==
    /\ hd[h].pc = "escaped"
    /\ hd' = [hd EXCEPT ![h] = IdleHandler]
    /\ UNCHANGED <<queue, plays, presses, interactions, files>>

(* ------------------------------- play --------------------------------- *)

\* context.args of "/play <text>": the words of the message after the command.
CommandArgs(text) == Tail(Split(PlayCmd \o <<" ">> \o text))

\* query = ' '.join(context.args) if context.args else None
QueryOf(args) == IF args # <<>> THEN Join(args) ELSE <<>>

\* play, up to its first reply: the prompt when there is no query, else the
\* interim "Searching for" notice.  A reply that raises escapes the handler.
PlayEntry(h, args) ==
    LET query == QueryOf(args) IN
    \E ok \in BOOLEAN :
        IF query = <<>>
        THEN /\ hd' = [hd EXCEPT ![h].query = query,
                                 ![h].log = Logged(h, "reply", "prompt", ok),
                                 ![h].pc = IF ok THEN "done" ELSE "escaped"]
             /\ UNCHANGED interactions
        ELSE /\ hd' = [hd EXCEPT ![h].query = query,
                                 ![h].log = Logged(h, "reply", "searching", ok),
                                 ![h].ix = IF ok THEN Len(interactions) + 1 ELSE 0,
                                 ![h].pc = IF ok THEN "search" ELSE "escaped"]
             /\ interactions' = IF ok THEN Append(interactions, NewInteraction)
                                ELSE interactions

\* CommandHandler("play", play)
play(h) ==
    /\ hd[h].kind = "play"
    /\ hd[h].pc = "start"
    /\ PlayEntry(h, CommandArgs(hd[h].text))
    /\ UNCHANGED <<queue, plays, presses, files>>

\* A slip in handle_message: the text split into words like a command's.
MessageArgs_Split(text) == Split(text)

\* The args handle_message hands to play.
MessageArgs(text) == <<text>>

\* handle_message: a text that does not begin with "/" becomes the only
\* element of context.args; any other text is ignored.
handle_message(h) ==
    /\ hd[h].kind = "msg"
    /\ hd[h].pc = "start"
    /\ IF hd[h].text # <<>> /\ ~StartsWith(hd[h].text, <<"/">>)
       THEN PlayEntry(h, MessageArgs(hd[h].text))
       ELSE /\ hd' = [hd EXCEPT ![h].pc = "done"]
            /\ UNCHANGED interactions
    /\ UNCHANGED <<queue, plays, presses, files>>

\* result = await search_youtube(query), drawn from the infos the catalog
\* can answer with.  text and query are not read after this call.
PlaySearch(h, infos) ==
    /\ hd[h].pc = "search"
    /\ \E info \in infos :
        LET result == SearchResult(info) IN
        hd' = [hd EXCEPT ![h].result = result,
                         ![h].text = <<>>,
                         ![h].query = <<>>,
                         ![h].log = Logged(h, "search", "query", ~info.raised),
                         ![h].pc = IF result.ok THEN "format" ELSE "noresult"]
    /\ UNCHANGED <<queue, plays, presses, interactions, files>>

\* Lines 105-114: the keyboard and the duration string.  A duration of None
\* makes "//" raise TypeError, which escapes play.
PlayFormat(h) ==
    /\ hd[h].pc = "format"
    /\ LET r == hd[h].result IN
       IF r.duration.tag = "int"
       THEN hd' = [hd EXCEPT ![h].callback_data = DownloadPayload(r.url),
                             ![h].duration_str = FormatDuration(r.duration.val),
                             ![h].pc = "delete"]
       ELSE hd' = [hd EXCEPT ![h].callback_data = DownloadPayload(r.url),
                             ![h].pc = "escaped"]
    /\ UNCHANGED <<queue, plays, presses, interactions, files>>

\* await searching_msg.delete()
PlayDelete(h) ==
    /\ hd[h].pc = "delete"
    /\ \E ok \in BOOLEAN :
        /\ hd' = [hd EXCEPT ![h].log = Logged(h, "delete", "searching", ok),
                            ![h].pc = IF ok THEN "reply" ELSE "escaped"]
        /\ interactions' = IF ok
               THEN [interactions EXCEPT ![hd[h].ix].searching_msg = "deleted"]
               ELSE interactions
    /\ UNCHANGED <<queue, plays, presses, files>>

\* await update.message.reply_text("Found ...", reply_markup=reply_markup)
PlayReply(h) ==
    /\ hd[h].pc = "reply"
    /\ \E ok \in BOOLEAN :
        /\ hd' = [hd EXCEPT ![h].log = Logged(h, "reply", "found", ok),
                            ![h].pc = IF ok THEN "done" ELSE "escaped"]
        /\ interactions' = IF ok
               THEN [interactions EXCEPT ![hd[h].ix].result_msg = "found",
                                         ![hd[h].ix].keyboard = TRUE,
                                         ![hd[h].ix].payload = hd[h].callback_data]
               ELSE interactions
    /\ UNCHANGED <<queue, plays, presses, files>>

\* await searching_msg.edit_text("No results found ...")
PlayNoResult(h) ==
    /\ hd[h].pc = "noresult"
    /\ \E ok \in BOOLEAN :
        /\ hd' = [hd EXCEPT ![h].log = Logged(h, "edit", "noresults", ok),
                            ![h].pc = IF ok THEN "done" ELSE "escaped"]
        /\ interactions' = IF ok
               THEN [interactions EXCEPT ![hd[h].ix].searching_msg = "noresults"]
               ELSE interactions
    /\ UNCHANGED <<queue, plays, presses, files>>

(* -------------------------- button_callback --------------------------- *)

\* query.edit_message_text(text): the message shows text and, no
\* reply_markup being given, loses its keyboard.
Edited(i, text) ==
    [interactions EXCEPT ![i].result_msg = text, ![i].keyboard = FALSE]

\* A slip in button_callback: the payload routed before any acknowledgement.
ButtonAnswer_Late(h) ==
    /\ hd[h].kind = "press"
    /\ hd[h].pc = "start"
    /\ hd' = [hd EXCEPT ![h].pc = "route"]
    /\ UNCHANGED <<queue, plays, presses, interactions, files>>

\* await query.answer(), outside every try.
ButtonAnswer(h) ==
    /\ hd[h].kind = "press"
    /\ hd[h].pc = "start"
    /\ \E ok \in BOOLEAN :
        hd' = [hd EXCEPT ![h].log = Logged(h, "answer", "", ok),
                         ![h].pc = IF ok THEN "route" ELSE "escaped"]
    /\ UNCHANGED <<queue, plays, presses, interactions, files>>

\* A slip in button_callback: "cancel" taken for a download request.
ButtonCancel_AsDownload(h) ==
    /\ hd[h].pc = "route"
    /\ hd[h].data = CancelData
    /\ \E ok \in BOOLEAN :
        /\ hd' = [hd EXCEPT ![h].url = hd[h].data,
                            ![h].log = Logged(h, "edit", "downloading", ok),
                            ![h].pc = IF ok THEN "download" ELSE "escaped"]
        /\ interactions' = IF ok
               THEN [interactions EXCEPT ![hd[h].ix].result_msg = "downloading",
                                         ![hd[h].ix].keyboard = FALSE]
               ELSE interactions
    /\ UNCHANGED <<queue, plays, presses, files>>

\* if query.data == "cancel": edit to the cancellation notice and return.
ButtonCancel(h) ==
    /\ hd[h].pc = "route"
    /\ hd[h].data = CancelData
    /\ \E ok \in BOOLEAN :
        /\ hd' = [hd EXCEPT ![h].log = Logged(h, "edit", "cancelled", ok),
                            ![h].pc = IF ok THEN "done" ELSE "escaped"]
        /\ interactions' = IF ok THEN Edited(hd[h].ix, "cancelled") ELSE interactions
    /\ UNCHANGED <<queue, plays, presses, files>>

\* url = query.data.replace("download_", "")
UrlOf(data) == Replace(data, DownloadPrefix)

\* if query.data.startswith("download_"): extract the url and edit to the
\* "Downloading" notice, still outside the try.
ButtonDownloadRequest(h) ==
    /\ hd[h].pc = "route"
    /\ hd[h].data # CancelData
    /\ StartsWith(hd[h].data, DownloadPrefix)
    /\ \E ok \in BOOLEAN :
        /\ hd' = [hd EXCEPT ![h].url = UrlOf(hd[h].data),
                            ![h].log = Logged(h, "edit", "downloading", ok),
                            ![h].pc = IF ok THEN "download" ELSE "escaped"]
        /\ interactions' = IF ok THEN Edited(hd[h].ix, "downloading") ELSE interactions
    /\ UNCHANGED <<queue, plays, presses, files>>

\* A slip in button_callback: any payload but "cancel" taken for a download
\* request.
ButtonUnrecognized_AsDownload(h) ==
    /\ hd[h].pc = "route"
    /\ hd[h].data # CancelData
    /\ ~StartsWith(hd[h].data, DownloadPrefix)
    /\ \E ok \in BOOLEAN :
        /\ hd' = [hd EXCEPT ![h].url = UrlOf(hd[h].data),
                            ![h].log = Logged(h, "edit", "downloading", ok),
                            ![h].pc = IF ok THEN "download" ELSE "escaped"]
        /\ interactions' = IF ok
               THEN [interactions EXCEPT ![hd[h].ix].result_msg = "downloading",
                                         ![hd[h].ix].keyboard = FALSE]
               ELSE interactions
    /\ UNCHANGED <<queue, plays, presses, files>>

\* Any other payload: the handler returns after the acknowledgement.
ButtonUnrecognized(h) ==
    /\ hd[h].pc = "route"
    /\ hd[h].data # CancelData
    /\ ~StartsWith(hd[h].data, DownloadPrefix)
    /\ hd' = [hd EXCEPT ![h].pc = "done"]
    /\ UNCHANGED <<queue, plays, presses, interactions, files>>

\* download_audio(url) on a downloads/ directory holding fs: os.makedirs may
\* raise (outside the try, so the caller sees it); extract_info may raise
\* (caught, None); otherwise the media has some title t, its mp3 was written
\* or not, and the path is returned when os.path.exists finds it.
\* wrote tells whether this call wrote the file at that path itself.
download_audio(fs) ==
    {[raised |-> TRUE, file |-> NoFile, files |-> fs, wrote |-> FALSE],
     [raised |-> FALSE, file |-> NoFile, files |-> fs, wrote |-> FALSE]}
        \cup {[raised |-> FALSE,
               file |-> IF t \in (IF w THEN fs \cup {t} ELSE fs) THEN t ELSE NoFile,
               files |-> IF w THEN fs \cup {t} ELSE fs,
               wrote |-> w] :
                 t \in Titles, w \in BOOLEAN}

\* A slip in button_callback: the "if audio_file" test left out.
AfterDownload_Unchecked(out) ==
    IF out.raised THEN "except" ELSE "send"

\* Where the handler goes once download_audio has answered.
AfterDownload(out) ==
    IF out.raised THEN "except"
    ELSE IF out.file # NoFile THEN "send" ELSE "failed"

\* audio_file = await download_audio(url), inside the try.
ButtonDownload(h) ==
    /\ hd[h].pc = "download"
    /\ \E out \in download_audio(files) :
        /\ hd' = [hd EXCEPT ![h].audio_file = out.file,
                            ![h].wrote = out.wrote,
                            ![h].log = Logged(h, "download",
                                IF out.file # NoFile THEN "file" ELSE "none",
                                ~out.raised),
                            ![h].pc = AfterDownload(out)]
        /\ files' = out.files
    /\ interactions' = [interactions EXCEPT ![hd[h].ix].downloads = @ + 1]
    /\ UNCHANGED <<queue, plays, presses>>

\* A slip in button_callback: the send's failure swallowed, the flow going on.
AfterSend_Ignore(ok) == "remove"

\* Where the handler goes once the send step has ended: an exception leaves
\* the try body for the except branch, skipping os.remove.
AfterSend(ok) == IF ok THEN "remove" ELSE "except"

\* with open(audio_file, 'rb') as audio: await context.bot.send_audio(...)
ButtonSend(h) ==
    /\ hd[h].pc = "send"
    /\ \E ok \in BOOLEAN :
        LET sent == ok /\ hd[h].audio_file \in files IN
        /\ hd' = [hd EXCEPT ![h].log = Logged(h, "send_audio", "", sent),
                            ![h].pc = AfterSend(sent)]
        /\ interactions' = IF sent
               THEN [interactions EXCEPT ![hd[h].ix].sends = @ + 1]
               ELSE interactions
    /\ UNCHANGED <<queue, plays, presses, files>>

\* os.remove(audio_file)
ButtonRemove(h) ==
    /\ hd[h].pc = "remove"
    /\ \E ok \in BOOLEAN :
        LET removed == ok /\ hd[h].audio_file \in files IN
        /\ hd' = [hd EXCEPT ![h].log = Logged(h, "remove", "", removed),
                            ![h].pc = IF removed THEN "success" ELSE "except"]
        /\ files' = IF removed THEN files \ {hd[h].audio_file} ELSE files
    /\ UNCHANGED <<queue, plays, presses, interactions>>

\* await query.edit_message_text("Audio sent successfully!")
ButtonSuccess(h) ==
    /\ hd[h].pc = "success"
    /\ \E ok \in BOOLEAN :
        /\ hd' = [hd EXCEPT ![h].log = Logged(h, "edit", "sent", ok),
                            ![h].pc = IF ok THEN "done" ELSE "except"]
        /\ interactions' = IF ok THEN Edited(hd[h].ix, "sent") ELSE interactions
    /\ UNCHANGED <<queue, plays, presses, files>>

\* else: await query.edit_message_text("Failed to download audio ...")
ButtonFailed(h) ==
    /\ hd[h].pc = "failed"
    /\ \E ok \in BOOLEAN :
        /\ hd' = [hd EXCEPT ![h].log = Logged(h, "edit", "failed", ok),
                            ![h].pc = IF ok THEN "done" ELSE "except"]
        /\ interactions' = IF ok THEN Edited(hd[h].ix, "failed") ELSE interactions
    /\ UNCHANGED <<queue, plays, presses, files>>

\* except Exception: log, then edit to "An error occurred while downloading."
\* An edit that raises here escapes the handler.
ButtonExcept(h) ==
    /\ hd[h].pc = "except"
    /\ \E ok \in BOOLEAN :
        /\ hd' = [hd EXCEPT ![h].log = Logged(h, "edit", "error", ok),
                            ![h].pc = IF ok THEN "done" ELSE "escaped"]
        /\ interactions' = IF ok THEN Edited(hd[h].ix, "error") ELSE interactions
    /\ UNCHANGED <<queue, plays, presses, files>>

(* --------------------------- specification ---------------------------- *)

Next ==
    \/ UserPlay
    \/ UserMessage
    \/ UserPress
    \/ Dispatch
    \/ \E h \in Slots : Return(h)
    \/ \E h \in Slots : error_handler(h)
    \/ \E h \in Slots : play(h)
    \/ \E h \in Slots : handle_message(h)
    \/ \E h \in Slots : PlaySearch(h, Infos(MaxDuration))
    \/ \E h \in Slots : PlayFormat(h)
    \/ \E h \in Slots : PlayDelete(h)
    \/ \E h \in Slots : PlayReply(h)
    \/ \E h \in Slots : PlayNoResult(h)
    \/ \E h \in Slots : ButtonAnswer(h)
    \/ \E h \in Slots : ButtonCancel(h)
    \/ \E h \in Slots : ButtonDownloadRequest(h)
    \/ \E h \in Slots : ButtonUnrecognized(h)
    \/ \E h \in Slots : ButtonDownload(h)
    \/ \E h \in Slots : ButtonSend(h)
    \/ \E h \in Slots : ButtonRemove(h)
    \/ \E h \in Slots : ButtonSuccess(h)
    \/ \E h \in Slots : ButtonFailed(h)
    \/ \E h \in Slots : ButtonExcept(h)

Spec == Init /\ [][Next]_vars

(* ------------------------- vocabulary of claims ----------------------- *)

\* The handler has ended: it returned, or an exception escaped it.
Ended(h) == hd[h].pc \in {"done", "escaped"}

\* The handler has made (attempted) a call of this name.
Made(h, name) == \E k \in 1..Len(hd[h].log) : hd[h].log[k].call = name

\* A call of the handler raised.
Raised(h) == \E k \in 1..Len(hd[h].log) : ~hd[h].log[k].ok

\* The status message of the handler's interaction.
Status(h) == interactions[hd[h].ix].result_msg

FailureNotices == {"failed", "error"}

\* The handler is a button handling whose download_audio answered no file.
DownloadGaveNoFile(h) ==
    /\ hd[h].kind = "press"
    /\ \E k \in 1..Len(hd[h].log) :
        hd[h].log[k].call = "download" /\ hd[h].log[k].arg = "none"

\* play or handle_message is past its entry and has not searched yet, so
\* text and query still hold what the entry saw and computed.
PastEntry(h) ==
    /\ hd[h].kind \in {"play", "msg"}
    /\ hd[h].pc \in {"search", "done", "escaped"}
    /\ ~Made(h, "search")

IsBlank(text) == \A k \in 1..Len(text) : text[k] = " "

(* -------------------------------- C1 ---------------------------------- *)

\* C1: when a button handling in which download_audio returned a staged
\* file ends, that file no longer exists, whether the send step completed
\* or raised.
C1_StagedFileRemoved ==
    \A h \in Slots :
        (hd[h].kind = "press" /\ Ended(h) /\ hd[h].audio_file # NoFile)
            => hd[h].audio_file \notin files

(* -------------------------------- C2 ---------------------------------- *)

\* C2: for an empty or whitespace-only query, given to /play or sent as a
\* plain message, the handler replies with the prompt for a song name and
\* never invokes the Search Collaborator.
C2_BlankQueryPrompts ==
    \A h \in Slots :
        (PastEntry(h) /\ IsBlank(hd[h].text))
            => /\ hd[h].pc # "search"
               /\ Len(hd[h].log) = 1
               /\ hd[h].log[1].call = "reply"
               /\ hd[h].log[1].arg = "prompt"

(* -------------------------------- C3 ---------------------------------- *)

\* C3: the payload play builds is "download_" followed by the result's url
\* unmodified, and the url button_callback extracts from that payload and
\* hands to download_audio is that url exactly.
C3_UrlRoundTrip ==
    \A h \in Slots :
        /\ hd[h].pc \in {"delete", "reply"} =>
            /\ StartsWith(hd[h].callback_data, DownloadPrefix)
            /\ SubSeq(hd[h].callback_data, Len(DownloadPrefix) + 1,
                      Len(hd[h].callback_data)) = hd[h].result.url
        /\ (hd[h].kind = "press" /\ hd[h].pc = "download"
                /\ hd[h].data = interactions[hd[h].ix].payload) =>
            hd[h].url = SubSeq(hd[h].data, Len(DownloadPrefix) + 1, Len(hd[h].data))

(* -------------------------------- C4 ---------------------------------- *)

\* C4: an exception raised at any step of a button handling is caught in
\* the handler: it never escapes, and the handling ends with the status
\* message showing the generic failure notice.
C4_ExceptionsCaught ==
    \A h \in Slots :
        hd[h].kind = "press" =>
            /\ hd[h].pc # "escaped"
            /\ (Ended(h) /\ Raised(h)) => Status(h) = "error"

(* -------------------------------- C5 ---------------------------------- *)

CollaboratorCalls == {"search", "download"}
FileCalls == {"send_audio", "remove"}

Digits == {DigitChar(d) : d \in 0..9}
DigitValue(c) == CHOOSE d \in 0..9 : DigitChar(d) = c

\* The number a string of digits writes.
RECURSIVE NumberOf(_)
NumberOf(s) ==
    IF s = <<>> THEN 0
    ELSE 10 * NumberOf(SubSeq(s, 1, Len(s) - 1)) + DigitValue(s[Len(s)])

\* s reads as d seconds: minutes without leading zeros, ":", two digits.
ShowsDuration(s, d) ==
    /\ Len(s) >= 4
    /\ s[Len(s) - 2] = ":"
    /\ \A k \in 1..Len(s) : k # Len(s) - 2 => s[k] \in Digits
    /\ Len(s) > 4 => s[1] # "0"
    /\ NumberOf(SubSeq(s, 1, Len(s) - 3)) = d \div 60
    /\ NumberOf(SubSeq(s, Len(s) - 1, Len(s))) = d % 60

\* C7: after every successful search the duration string play shows reads
\* duration // 60, ":", duration % 60 on two digits, where a duration that
\* is missing or None counts as 0 and shows as "0:00".
C7_DurationShown ==
    \A h \in Slots :
        (hd[h].result.ok /\ hd[h].pc \in {"delete", "reply", "done", "escaped"})
            => ShowsDuration(hd[h].duration_str,
                   IF hd[h].result.duration.tag = "int"
                   THEN hd[h].result.duration.val ELSE 0)

(* -------------------------------- C8 ---------------------------------- *)

InteractionState(seq, k) ==
    IF k > Len(seq) THEN "Idle"
    ELSE CASE seq[k].result_msg = "found" -> "ResultsShown"
           [] seq[k].result_msg = "downloading" -> "Downloading"
           [] seq[k].result_msg = "cancelled" -> "Cancelled"
           [] seq[k].result_msg = "sent" -> "Sent"
           [] seq[k].result_msg \in FailureNotices -> "Failed"
           [] OTHER -> IF seq[k].searching_msg = "noresults"
                       THEN "NoResults" ELSE "Searching"

TransitionGraph ==
    {<<"Idle", "Searching">>,
     <<"Searching", "ResultsShown">>, <<"Searching", "NoResults">>,
     <<"ResultsShown", "Downloading">>, <<"ResultsShown", "Cancelled">>,
     <<"Downloading", "Sent">>, <<"Downloading", "Failed">>}

\* C9: an interaction only moves along the transition graph; in
\* particular a terminal state (NoResults, Cancelled, Sent, Failed) is
\* never left.
C9_OnlyGraphTransitions ==
    [][\A k \in 1..(MaxPlays + 1) :
          \/ InteractionState(interactions', k) = InteractionState(interactions, k)
          \/ <<InteractionState(interactions, k), InteractionState(interactions', k)>>
                \in TransitionGraph]_vars

(* -------------------------------- C10 --------------------------------- *)

\* C10: one presented search result leads to at most one Download
\* Collaborator invocation and at most one audio attachment.
C10_ConsumedOnce ==
    \A k \in 1..Len(interactions) :
        /\ interactions[k].downloads <= 1
        /\ interactions[k].sends <= 1

(* -------------------------------- C11 --------------------------------- *)

\* C11: handlings share no mutable state: the staged file a button handling
\* reads, sends and deletes is one its own download wrote, never a file
\* another handling left at the same path.
C11_OwnFileOnly ==
    \A h \in Slots :
        (hd[h].kind = "press" /\ hd[h].audio_file # NoFile) => hd[h].wrote

(* -------------------------------- C12 --------------------------------- *)

\* C12: the search and the download are suspension points: while a
\* handling is at its search_youtube or download_audio call and another
\* update waits in the queue, the dispatcher can start that update's
\* handling.
C12_CollaboratorsSuspend ==
    \A h \in Slots :
        (hd[h].pc \in {"search", "download"} /\ queue # <<>>)
            => ENABLED Dispatch

(* -------------------------------- C13 --------------------------------- *)

\* The handler's search_youtube call yielded nothing (no entry, or an error).
SearchGaveNothing(h) ==
    \E k \in 1..Len(hd[h].log) :
        hd[h].log[k].call = "search" /\ ~hd[h].log[k].ok

\* C13: when search_youtube yields nothing, play offers no choice and calls
\* no download, and when it ends the interim notice shows "No results
\* found" and no exception has escaped the handler.
C13_NoResultEndsCleanly ==
    \A h \in Slots :
        SearchGaveNothing(h) =>
            /\ ~Made(h, "download")
            /\ ~interactions[hd[h].ix].keyboard
            /\ Ended(h) =>
                /\ interactions[hd[h].ix].searching_msg = "noresults"
                /\ hd[h].pc = "done"

(* -------------------------------- C14 --------------------------------- *)

\* C14: in every button handling, whatever the payload, query.answer() is
\* the first outbound call: a handling past its start has made it, and every
\* edit, download, send and removal of the handling comes after it.
C14_AnswerFirst ==
    \A h \in Slots :
        hd[h].kind = "press" =>
            /\ hd[h].pc # "start" =>
                    hd[h].log # <<>> /\ hd[h].log[1].call = "answer"
            /\ \A k \in 1..Len(hd[h].log) :
                    hd[h].log[k].call # "answer" =>
                        k > 1 /\ hd[h].log[1].call = "answer" /\ hd[h].log[1].ok

\* A download request acknowledged first and carried through to the send.
C14_Witness ==
    \E h \in Slots :
        /\ hd[h].kind = "press"
        /\ StartsWith(hd[h].data, DownloadPrefix)
        /\ Made(h, "send_audio")
        /\ hd[h].log[1].call = "answer"

(* -------------------------------- C15 --------------------------------- *)

\* The handler's k-th call is the edit to the success notice.
SuccessEdit(h, k) ==
    hd[h].log[k].call = "edit" /\ hd[h].log[k].arg = "sent"

\* A send or a removal of the handler raised.
SendOrRemoveRaised(h) ==
    \E k \in 1..Len(hd[h].log) :
        hd[h].log[k].call \in {"send_audio", "remove"} /\ ~hd[h].log[k].ok

\* C15: a button handling edits the status to the success notice only right
\* after its send of the audio and then its removal of the staged file have
\* both returned, in that order; a handling whose send or removal raised
\* never attempts that edit and its message never shows the success notice;
\* and a message showing the success notice has had an audio sent.
C15_SuccessAfterSendAndRemove ==
    /\ \A h \in Slots :
        hd[h].kind = "press" =>
            /\ \A k \in 1..Len(hd[h].log) :
                    SuccessEdit(h, k) =>
                        /\ k >= 3
                        /\ hd[h].log[k - 2].call = "send_audio"
                        /\ hd[h].log[k - 2].ok
                        /\ hd[h].log[k - 1].call = "remove"
                        /\ hd[h].log[k - 1].ok
            /\ SendOrRemoveRaised(h) =>
                    /\ \A k \in 1..Len(hd[h].log) : ~SuccessEdit(h, k)
                    /\ Status(h) # "sent"
    /\ \A i \in 1..Len(interactions) :
            interactions[i].result_msg = "sent" => interactions[i].sends >= 1

\* A handling that sent, removed and then showed the success notice.
C15_Witness ==
    \E h \in Slots :
        /\ hd[h].kind = "press"
        /\ hd[h].pc = "done"
        /\ hd[h].log # <<>>
        /\ SuccessEdit(h, Len(hd[h].log))
        /\ hd[h].log[Len(hd[h].log)].ok
        /\ Status(h) = "sent"

(* -------------------------------- C16 --------------------------------- *)

\* The payload is neither "cancel" nor begins with "download_".
Unrecognized(data) ==
    /\ data # CancelData
    /\ \/ Len(data) < Len(DownloadPrefix)
       \/ SubSeq(data, 1, Len(DownloadPrefix)) # DownloadPrefix

\* C16: a button handling whose payload is neither "cancel" nor prefixed
\* with "download_" makes the acknowledgement and no other call: no edit,
\* no search, no download, no send, no removal, and it holds no file; and
\* download_audio is called only by a button handling whose payload starts
\* with "download_".
C16_UnrecognizedOnlyAcknowledged ==
    \A h \in Slots :
        /\ (hd[h].kind = "press" /\ Unrecognized(hd[h].data)) =>
                /\ Len(hd[h].log) <= 1
                /\ hd[h].pc # "start" => Len(hd[h].log) = 1
                /\ \A k \in 1..Len(hd[h].log) : hd[h].log[k].call = "answer"
                /\ hd[h].audio_file = NoFile
                /\ hd[h].pc \in {"start", "route", "done", "escaped"}
        /\ Made(h, "download") =>
                /\ hd[h].kind = "press"
                /\ ~Unrecognized(hd[h].data)
                /\ hd[h].data # CancelData

\* An unrecognized payload acknowledged and its handling ended.
C16_Witness ==
    \E h \in Slots :
        /\ hd[h].kind = "press"
        /\ Unrecognized(hd[h].data)
        /\ hd[h].pc = "done"
        /\ hd[h].log = <<Call("answer", "", TRUE)>>

====
